---- MODULE Spec2Model ----
(***************************************************************************)
(* riscos_toolbox/events.py: the handler registries filled by the          *)
(* @toolbox_handler / @message_handler / @wimp_handler decorators, the     *)
(* per-instance tables EventHandler.__init__ builds from them, the         *)
(* self/parent/ancestor/application dispatch, and the table of reply       *)
(* callbacks kept by UserMessage._send, message_dispatch and null_poll.    *)
(*                                                                         *)
(* Python's single thread is the variable pc: "idle" in the poll loop,     *)
(* "handlers" inside the candidate loop of a dispatch (about to call the   *)
(* next handler), "cb_your" / "cb_my" / "cb_null" while a reply callback   *)
(* called from line 428 / 434 / 456 is running, and "done" when the call   *)
(* has returned or raised and its caller looks at the result.  Handlers    *)
(* and callbacks are application code: what they return or raise is chosen *)
(* with \E.                                                                *)
(***************************************************************************)
EXTENDS Integers, Sequences, FiniteSets, TLC

VARIABLES
    _toolbox_handlers,   \* events.py:305  {event: {class-name: {component: entry}}}
    _wimp_handlers,      \* events.py:306
    _message_handlers,   \* events.py:307
    _reply_callbacks,    \* events.py:309  {ref: callback}
    objects,             \* the constructed EventHandler instances, by object id
    pc,                  \* where the interpreter is
    cur,                 \* the arguments and locals of the call in progress (or last made)
    log,                 \* the handlers and callbacks that call has invoked, in order
    outcome,             \* how the last call ended: "running", "returned" or the exception
    fired,               \* per reference number, how often its callback was invoked
    next_ref,            \* the my_ref Wimp_SendMessage fills in next
    applied,             \* the decorator lines executed so far
    shown,               \* an AboutToBeShownEvent, and the property last read of it
    defined              \* the classes whose class statement has completed

vars == <<_toolbox_handlers, _wimp_handlers, _message_handlers, _reply_callbacks,
          objects, pc, cur, log, outcome, fired, next_ref, applied, shown, defined>>

registries == <<_toolbox_handlers, _wimp_handlers, _message_handlers>>

-----------------------------------------------------------------------------
(* Bounds of the model *)

MaxRef == 2       \* reference numbers the Wimp hands out in one run
MaxFired == 2     \* the invocation counters of a callback stop here

-----------------------------------------------------------------------------
(* The universe of application code the model draws from *)

None == "None"
EmptyDict == <<>>

\* class B(A), class A(EventHandler)
Classes == {"A", "B"}

\* inspect.getmro(cls), as the __qualname__ of each class
getmro(cls) ==
    IF cls = "B" THEN <<"B", "A", "EventHandler", "object">>
                 ELSE <<"A", "EventHandler", "object">>

\* cls is a proper subclass of k
subclass(cls, k) == cls # k /\ \E i \in DOMAIN getmro(cls) : getmro(cls)[i] = k

\* handler functions, by __qualname__ split at the dots: two methods and a
\* module-level function
on_a == <<"A", "on_a">>
on_b == <<"B", "on_b">>
on_f == <<"on_f">>

\* Ev5.event_id, the event number of the one Event class of the application
event_id(name) == 5

\* what a decorator is given as event: an int, or a class derived from Event
IntCode(n) == [t |-> "int", v |-> n, name |-> None, items |-> <<>>]
EventClass(name) == [t |-> "event", v |-> 0, name |-> name, items |-> <<>>]

\* what it must not be given: a class that is not derived from Event, a str
\* of n characters, a float; and a list of any of these
OtherClass(name) == [t |-> "class", v |-> 0, name |-> name, items |-> <<>>]
StrCode(n) == [t |-> "str", v |-> n, name |-> None, items |-> <<>>]
FloatCode == [t |-> "float", v |-> 0, name |-> None, items |-> <<>>]
ListCode(items) == [t |-> "list", v |-> 0, name |-> None, items |-> items]

\* a list of component ids given as component, [2, 3]
ComponentList == "[c2, c3]"

\* one decorator line of the application: @<kind>_handler(code, component)
\* above the definition of handler
Decorator(kind, code, component, handler) ==
    [kind |-> kind, code |-> code, component |-> component, handler |-> handler]

\* the event numbers the poll loop delivers: 5 has handlers, 6 never has
EventCodes == {5, 6}

\* component ids an event can come from; "c2" has handlers of its own
Components == {"c2", "c3"}

\* the decorator lines the application may hold; each is executed at most
\* once, those of a class in any order while its class body runs
Decorators ==
    {Decorator("toolbox", EventClass("Ev5"), "c2", on_a),
     Decorator("toolbox", IntCode(5), None, on_a),
     Decorator("toolbox", IntCode(5), None, on_b),
     Decorator("toolbox", IntCode(5), None, on_f),
     Decorator("wimp", IntCode(5), "c2", on_b),
     Decorator("message", IntCode(5), None, on_a)}

ObjIds == {"o1", "o2"}
NullId == "null"
AppKey == "app"

\* the class of each object the application creates: o1 is a B, its parent
\* o2 and the application object are instances of A
ClassOf(id) == IF id = "o1" THEN "B" ELSE "A"

\* ctypes.sizeof of the Event class: the four words of lines 90-95
sizeof(name) == 16

\* the reply callback the application passes to broadcast / reply / send
Callbacks == {<<"cb1">>}

\* Wimp reason codes a message arrives with (._consts.Wimp)
Reasons == {"UserMessage", "UserMessageRecorded", "UserMessageAcknowledge"}

\* what a handler or a callback returns
Returns == {"False", "None", "True"}

-----------------------------------------------------------------------------
(* Registration: events.py 312-359 *)

\* a registry value as line 331/333 stores it: the tuple (handler, event_type)
Pair(handler, event_type) ==
    [tuple |-> TRUE, handler |-> handler, data_class |-> event_type]

\* a registry value as line 329 stores it: the handler function itself
Bare(handler) ==
    [tuple |-> FALSE, handler |-> handler, data_class |-> None]

\* lines 313-316: the class a handler was defined in, or None
qualname_cls(handler) ==
    IF Len(handler) > 1 THEN handler[Len(handler) - 1] ELSE None

\* lines 318-333
_add_handler(handlers, code, component, cls, handler) ==
    LET event_type == IF code.t = "int" THEN None ELSE code.name
        c == IF code.t = "int" THEN code.v ELSE event_id(code.name)
    IN  IF c \in DOMAIN handlers
        THEN IF cls \in DOMAIN handlers[c]
             THEN [handlers EXCEPT ![c][cls] = (component :> Bare(handler)) @@ @]
             ELSE [handlers EXCEPT
                      ![c] = (cls :> (component :> Pair(handler, event_type))) @@ @]
        ELSE (c :> (cls :> (component :> Pair(handler, event_type)))) @@ handlers

\* the exception _add_handler raises for this code and component, or None:
\* line 325 for a class that is no Event; issubclass (line 321) raises
\* TypeError for what is no class; a list is no dict key (lines 329-333)
add_raises(code, component) ==
    CASE code.t = "class" -> "RuntimeError"
      [] code.t \notin {"int", "event"} -> "TypeError"
      [] component = ComponentList -> "TypeError"
      [] OTHER -> None

\* lines 335-339: the codes _add_handler is called with, one after the other:
\* the elements of an Iterable (the characters of a str), or the code itself
codes_of(code) ==
    CASE code.t = "list" -> code.items
      [] code.t = "str" -> [i \in 1..code.v |-> StrCode(1)]
      [] OTHER -> <<code>>

\* lines 335-339: _add_handler for each code until one raises
RECURSIVE add_each(_, _, _, _, _)
add_each(handlers, codes, component, cls, handler) ==
    IF codes = <<>> THEN [handlers |-> handlers, raised |-> None]
    ELSE IF add_raises(Head(codes), component) # None
    THEN [handlers |-> handlers, raised |-> add_raises(Head(codes), component)]
    ELSE add_each(_add_handler(handlers, Head(codes), component, cls, handler),
                  Tail(codes), component, cls, handler)

\* lines 312-341: the registry afterwards, and the exception raised or None
_set_handler(code, component, handler, handlers) ==
    add_each(handlers, codes_of(code), component, qualname_cls(handler), handler)

-----------------------------------------------------------------------------
(* EventHandler.__init__: events.py 242-267 *)

\* a faulty variant of _build_handlers: the entries of a class are put in
\* front of the instance's lists (insert(0, ...) for append)
_build_handlers_prepend(registry, handlers, classname) ==
    LET hit == {e \in DOMAIN registry : classname \in DOMAIN registry[e]}
    IN  [e \in DOMAIN handlers \cup hit |->
            LET old == IF e \in DOMAIN handlers THEN handlers[e] ELSE EmptyDict
                new == IF e \in hit THEN registry[e][classname] ELSE EmptyDict
            IN  [c \in DOMAIN old \cup DOMAIN new |->
                    (IF c \in DOMAIN new THEN <<new[c]>> ELSE <<>>)
                    \o (IF c \in DOMAIN old THEN old[c] ELSE <<>>)]]

\* lines 248-257: the entries of one class, appended to the instance's lists
_build_handlers(registry, handlers, classname) ==
    LET hit == {e \in DOMAIN registry : classname \in DOMAIN registry[e]}
    IN  [e \in DOMAIN handlers \cup hit |->
            LET old == IF e \in DOMAIN handlers THEN handlers[e] ELSE EmptyDict
                new == IF e \in hit THEN registry[e][classname] ELSE EmptyDict
            IN  [c \in DOMAIN old \cup DOMAIN new |->
                    (IF c \in DOMAIN old THEN old[c] ELSE <<>>)
                    \o (IF c \in DOMAIN new THEN <<new[c]>> ELSE <<>>)]]

\* lines 259-267 for one registry: the classes of the MRO from position i on
RECURSIVE build_mro(_, _, _, _)
build_mro(registry, handlers, mro, i) ==
    IF i > Len(mro) THEN handlers
    ELSE build_mro(registry, _build_handlers(registry, handlers, mro[i]), mro, i + 1)

\* lines 242-267, from the three registries as they are when the object is made
EventHandler_init(cls, toolbox, wimp, message) ==
    [cls |-> cls,
     toolbox_handlers |-> build_mro(toolbox, EmptyDict, getmro(cls), 1),
     wimp_handlers    |-> build_mro(wimp, EmptyDict, getmro(cls), 1),
     message_handlers |-> build_mro(message, EmptyDict, getmro(cls), 1)]

-----------------------------------------------------------------------------
(* The call in progress *)

NoMsg == [reason |-> None, my_ref |-> 0, your_ref |-> 0, code |-> 0]
NoCallback == <<>>
NoIdBlock == [self |-> NullId, parent |-> NullId, ancestor |-> NullId,
              component |-> None]

\* the frame of a public function
Frame(op, start, fresh) ==
    [op |-> op, event |-> 0, msg |-> NoMsg, application |-> None,
     id_block |-> NoIdBlock, poll_len |-> 0,
     cands |-> <<>>, obj |-> None, queue |-> <<>>,    \* the candidate loop
     keys |-> <<>>, ref |-> 0, callback |-> NoCallback,   \* the callback being run
     start |-> start,                                 \* the refs pending on entry
     fresh |-> fresh,                                 \* the first ref not yet given out
     reply_callback |-> NoCallback,
     result |-> None]     \* what the call returns: no function of lines 420-457
                          \* has a return statement with a value

\* the frame of a public function just entered
Call(op) == Frame(op, DOMAIN _reply_callbacks, next_ref)

\* no call in progress
NoCall == Frame("none", {}, 0)

\* one call of a handler or a callback, as the log keeps it: handler `who` of
\* obj found under the component key `filter`, or the callback stored under
\* ref; what it was passed and what it returned ("raise": it raised)
Invocation(t, obj, who, filter, ref, arg, res) ==
    [t |-> t, obj |-> obj, who |-> who, filter |-> filter, ref |-> ref,
     arg |-> arg, res |-> res]

-----------------------------------------------------------------------------
(* Event.from_poll_block and EventHandler._dispatch: events.py 69-86, 269-289 *)

\* a faulty variant of from_poll_block: the length test of line 74 left out
from_poll_block_unchecked(cls, poll_len) == cls

\* lines 73-86: the decoded object, or the RuntimeError of a short block
from_poll_block(cls, poll_len) ==
    IF poll_len < sizeof(cls) THEN "RuntimeError" ELSE cls

\* lines 276-279
_data(data_class, poll_len) ==
    IF data_class # None THEN from_poll_block(data_class, poll_len) ELSE "poll_block"

\* the entries of handlers[key], each with the key it is stored under
entries(handlers, key) ==
    IF key \in DOMAIN handlers
    THEN [i \in 1..Len(handlers[key]) |-> [e |-> handlers[key][i], filter |-> key]]
    ELSE <<>>

\* a faulty variant of _dispatch: the two blocks of lines 281-289 swapped,
\* the entries of None before those of the component
_dispatch_wildcard_first(handlers, event, component) ==
    IF event \notin DOMAIN handlers THEN <<>>
    ELSE entries(handlers[event], None) \o entries(handlers[event], component)

\* lines 270-289: the entries _dispatch goes through while handlers return
\* False: those of the component (281-284), then those of None (286-289)
_dispatch(handlers, event, component) ==
    IF event \notin DOMAIN handlers THEN <<>>
    ELSE entries(handlers[event], component) \o entries(handlers[event], None)

\* lines 291-301: the table a dispatch of this kind looks in
handlers_of(obj, op) ==
    CASE op = "toolbox_dispatch" -> obj.toolbox_handlers
      [] op = "wimp_dispatch"    -> obj.wimp_handlers
      [] OTHER                   -> obj.message_handlers

-----------------------------------------------------------------------------
(* _get_spaa: events.py 405-417 *)

\* .base.get_object: the object of an id, or None
get_object(id) == IF id \in DOMAIN objects \cap ObjIds THEN id ELSE None

\* the orders in which a set can be iterated: Python leaves it to the hashes
set_orders(S) ==
    {s \in [1..Cardinality(S) -> S] : \A i, j \in DOMAIN s : i # j => s[i] # s[j]}

map_get_object(ids) == [i \in DOMAIN ids |-> get_object(ids[i])]

_get_spaa(application, id_block) ==
    {SelectSeq(map_get_object(order), LAMBDA o : o # None)
        \o (IF application # None THEN <<application>> ELSE <<>>) :
     order \in set_orders({id_block.self, id_block.parent, id_block.ancestor})}

-----------------------------------------------------------------------------
(* The candidate loop of toolbox_dispatch, wimp_dispatch and message_dispatch: *)
(* events.py 420-423, 439-441, 444-447                                        *)

\* the loop from the candidates `cands` on: the first whose _dispatch finds
\* entries to go through, and the candidates after it
RECURSIVE advance(_, _, _, _)
advance(cands, op, event, component) ==
    IF cands = <<>> THEN [obj |-> None, queue |-> <<>>, cands |-> <<>>]
    ELSE LET q == _dispatch(handlers_of(objects[Head(cands)], op), event, component)
         IN  IF q # <<>>
             THEN [obj |-> Head(cands), queue |-> q, cands |-> Tail(cands)]
             ELSE advance(Tail(cands), op, event, component)

\* the call returns, or an exception leaves it
finish(c, how) ==
    /\ pc' = "done"
    /\ cur' = [c EXCEPT !.obj = None, !.queue = <<>>, !.cands = <<>>,
                        !.keys = <<>>, !.ref = 0]
    /\ outcome' = how

\* lines 421, 439, 445: build the candidate list and enter the loop
enter_loop(c) ==
    \E spaa \in _get_spaa(c.application, c.id_block) :
        LET a == advance(spaa, c.op, c.event, c.id_block.component)
        IN  IF a.obj = None
            THEN finish(c, "returned")
            ELSE /\ pc' = "handlers"
                 /\ cur' = [c EXCEPT !.obj = a.obj, !.queue = a.queue,
                                     !.cands = a.cands, !.ref = 0]
                 /\ outcome' = "running"

\* a faulty variant of stops: the truth value of the result decides ("if
\* handler(...):"), so that a handler returning nothing does not stop
stops_if_true(r) == r = "True"

\* does this result of a handler or callback end the processing (lines 283,
\* 288, 430, 436: "is not False")
stops(r) == r # "False"

\* lines 282-284 / 287-289: the next entry of the candidate is unpacked, the
\* poll block decoded and the handler called
call_handler(r) ==
    /\ pc = "handlers"
    /\ LET e == Head(cur.queue).e
           data == _data(e.data_class, cur.poll_len)
       IN  IF ~e.tuple
           THEN /\ finish(cur, "TypeError")
                /\ log' = log
           ELSE IF data = "RuntimeError"
           THEN /\ finish(cur, "RuntimeError")
                /\ log' = log
           ELSE /\ log' = Append(log, Invocation("handler", cur.obj, e.handler,
                                                 Head(cur.queue).filter, 0, data, r))
                /\ IF r = "raise" THEN finish(cur, "raised")
                   ELSE IF stops(r) THEN finish(cur, "returned")
                   ELSE IF Tail(cur.queue) # <<>>
                   THEN /\ pc' = pc
                        /\ cur' = [cur EXCEPT !.queue = Tail(@)]
                        /\ outcome' = outcome
                   ELSE LET a == advance(cur.cands, cur.op, cur.event,
                                         cur.id_block.component)
                        IN  IF a.obj = None THEN finish(cur, "returned")
                            ELSE /\ pc' = pc
                                 /\ cur' = [cur EXCEPT !.obj = a.obj, !.queue = a.queue,
                                                       !.cands = a.cands]
                                 /\ outcome' = outcome
    /\ UNCHANGED <<registries, _reply_callbacks, objects, shown, fired, next_ref, applied,
                   defined>>

\* lines 420-423
toolbox_dispatch(event_code, application, id_block, poll_len) ==
    /\ pc = "idle"
    /\ log' = log
    /\ enter_loop([Call("toolbox_dispatch") EXCEPT !.event = event_code,
                      !.application = application, !.id_block = id_block,
                      !.poll_len = poll_len])
    /\ UNCHANGED <<registries, _reply_callbacks, objects, shown, fired, next_ref, applied,
                   defined>>

\* lines 444-447
wimp_dispatch(reason, application, id_block, poll_len) ==
    /\ pc = "idle"
    /\ log' = log
    /\ enter_loop([Call("wimp_dispatch") EXCEPT !.event = reason,
                      !.application = application, !.id_block = id_block,
                      !.poll_len = poll_len])
    /\ UNCHANGED <<registries, _reply_callbacks, objects, shown, fired, next_ref, applied,
                   defined>>

-----------------------------------------------------------------------------
(* The reply callbacks: events.py 204-213, 426-441, 450-457 *)

\* del d[k]
del(d, k) == [x \in DOMAIN d \ {k} |-> d[x]]

\* list(d.keys()): the keys in the order they were inserted, which for
\* _reply_callbacks is ascending, as every insertion is under a new my_ref
RECURSIVE keys(_)
keys(S) ==
    IF S = {} THEN <<>>
    ELSE LET m == CHOOSE x \in S : \A y \in S : x <= y
         IN  <<m>> \o keys(S \ {m})

\* lines 210-211, after Wimp_SendMessage has filled in my_ref (line 207)
_send(my_ref, reply_callback) ==
    IF reply_callback # NoCallback
    THEN (my_ref :> reply_callback) @@ _reply_callbacks
    ELSE _reply_callbacks

\* the invocation counters of one callback: all its invocations, and those
\* for a reply (line 428)
NotFired == [total |-> 0, reply |-> 0]

Min(a, b) == IF a < b THEN a ELSE b

count(n, where) ==
    [total |-> Min(n.total + 1, MaxFired),
     reply |-> IF where = "cb_your" THEN Min(n.reply + 1, MaxFired) ELSE n.reply]

\* lines 428, 434, 456: _reply_callbacks[ref](...) is called
call_callback(c, where, ref, table) ==
    /\ pc' = where
    /\ cur' = [c EXCEPT !.ref = ref, !.callback = table[ref]]
    /\ fired' = [fired EXCEPT ![ref] = count(@, where)]
    /\ outcome' = "running"

\* line 236
bounce(msg) == msg.reason = "UserMessageAcknowledge"

\* lines 433-441, with _reply_callbacks as it is on line 433
after_reply_check(c, table) ==
    IF bounce(c.msg) /\ c.msg.my_ref \in DOMAIN table
    THEN call_callback(c, "cb_my", c.msg.my_ref, table)
    ELSE enter_loop(c) /\ fired' = fired

\* a faulty variant of message_dispatch: line 427 looks the message's my_ref
\* up, not its your_ref
message_dispatch_by_my_ref(code, application, id_block, poll_len) ==
    /\ pc = "idle"
    /\ log' = log
    /\ LET c == [Call("message_dispatch") EXCEPT !.event = code.code, !.msg = code,
                    !.application = application, !.id_block = id_block,
                    !.poll_len = poll_len]
       IN  IF code.my_ref \in DOMAIN _reply_callbacks
           THEN call_callback(c, "cb_your", code.my_ref, _reply_callbacks)
           ELSE after_reply_check(c, _reply_callbacks)
    /\ UNCHANGED <<registries, _reply_callbacks, objects, shown, next_ref, applied, defined>>

\* lines 426-441, up to the first call of application code
message_dispatch(code, application, id_block, poll_len) ==
    /\ pc = "idle"
    /\ log' = log
    /\ LET c == [Call("message_dispatch") EXCEPT !.event = code.code, !.msg = code,
                    !.application = application, !.id_block = id_block,
                    !.poll_len = poll_len]
       IN  IF code.your_ref \in DOMAIN _reply_callbacks
           THEN call_callback(c, "cb_your", code.your_ref, _reply_callbacks)
           ELSE after_reply_check(c, _reply_callbacks)
    /\ UNCHANGED <<registries, _reply_callbacks, objects, shown, next_ref, applied, defined>>

\* lines 454-457, up to the first call of a callback
null_poll ==
    /\ pc = "idle"
    /\ log' = log
    /\ LET ks == keys(DOMAIN _reply_callbacks)
           c == Call("null_poll")
       IN  IF ks = <<>>
           THEN finish(c, "returned") /\ fired' = fired
           ELSE call_callback([c EXCEPT !.keys = Tail(ks)], "cb_null", Head(ks),
                              _reply_callbacks)
    /\ UNCHANGED <<registries, _reply_callbacks, objects, shown, next_ref, applied, defined>>

\* a faulty variant of null_polls: one pending entry is not enough
null_polls_for_two == Cardinality(DOMAIN _reply_callbacks) > 1

\* lines 450-451: len(_reply_callbacks) > 0
null_polls == Cardinality(DOMAIN _reply_callbacks) > 0

\* the poll loop of the application asks for null events while null_polls()
\* is true, and calls null_poll() when it gets one
idle_null_poll == null_polls /\ null_poll

InCallback == pc \in {"cb_your", "cb_my", "cb_null"}

\* what the running callback was called with: the poll block, or None (line 456)
callback_arg == IF pc = "cb_null" THEN None ELSE "poll_block"

\* the running callback returns r: the rest of lines 428-441 / 456-457
callback_returns(r) ==
    /\ InCallback
    /\ log' = Append(log, Invocation("callback", None, cur.callback, None, cur.ref,
                                     callback_arg, r))
    /\ IF cur.ref \notin DOMAIN _reply_callbacks
       THEN /\ finish(cur, "KeyError")
            /\ UNCHANGED <<_reply_callbacks, fired>>
       ELSE LET table == del(_reply_callbacks, cur.ref)
            IN  /\ _reply_callbacks' = table
                /\ CASE pc = "cb_your" ->
                           IF stops(r) THEN finish(cur, "returned") /\ fired' = fired
                           ELSE after_reply_check(cur, table)
                     [] pc = "cb_my" ->
                           IF stops(r) THEN finish(cur, "returned") /\ fired' = fired
                           ELSE enter_loop(cur) /\ fired' = fired
                     [] OTHER ->
                           IF cur.keys = <<>>
                           THEN finish(cur, "returned") /\ fired' = fired
                           ELSE IF Head(cur.keys) \notin DOMAIN table
                           THEN finish(cur, "KeyError") /\ fired' = fired
                           ELSE call_callback([cur EXCEPT !.keys = Tail(@)], "cb_null",
                                              Head(cur.keys), table)
    /\ UNCHANGED <<registries, objects, shown, next_ref, applied, defined>>

\* the running callback raises: the exception leaves message_dispatch / null_poll
callback_raises ==
    /\ InCallback
    /\ log' = Append(log, Invocation("callback", None, cur.callback, None, cur.ref,
                                     callback_arg, "raise"))
    /\ finish(cur, "raised")
    /\ UNCHANGED <<registries, _reply_callbacks, objects, shown, fired, next_ref, applied,
                   defined>>

\* the running callback sends a message of its own with a reply callback
\* (broadcast or reply, lines 166-171, 190-195)
callback_sends(reply_callback) ==
    /\ InCallback
    /\ next_ref <= MaxRef
    /\ _reply_callbacks' = _send(next_ref, reply_callback)
    /\ next_ref' = next_ref + 1
    /\ UNCHANGED <<registries, objects, shown, pc, cur, log, outcome, fired, applied,
                   defined>>

-----------------------------------------------------------------------------
(* UserMessage.broadcast, send and reply: events.py 166-195 *)

\* the positional parameters of _send after self (line 204), and the
\* arguments each caller passes (lines 170-171, 187-188, 194-195)
_send_params == 5
broadcast_args == 5
send_args == 4
reply_args == 5

\* a call of _send through one of its callers: a call with the wrong number
\* of arguments raises TypeError before _send runs
send_message(op, nargs, your_ref, reply_callback) ==
    /\ pc = "idle"
    /\ nargs = _send_params => next_ref <= MaxRef
    /\ log' = log
    /\ IF nargs # _send_params
       THEN /\ finish([Call(op) EXCEPT !.reply_callback = reply_callback], "TypeError")
            /\ UNCHANGED <<_reply_callbacks, next_ref>>
       ELSE /\ finish([Call(op) EXCEPT !.reply_callback = reply_callback,
                           !.msg = [reason |-> "UserMessage", my_ref |-> next_ref,
                                    your_ref |-> your_ref, code |-> 0]],
                      "returned")
            /\ _reply_callbacks' = _send(next_ref, reply_callback)
            /\ next_ref' = next_ref + 1
    /\ UNCHANGED <<registries, objects, shown, fired, applied, defined>>

\* an incoming message as MessageInfo.create (lines 220-228) describes it
Message(reason, my_ref, your_ref, code) ==
    [reason |-> reason, my_ref |-> my_ref, your_ref |-> your_ref, code |-> code]

\* lines 166-171
broadcast(reply_callback) ==
    send_message("broadcast", broadcast_args, 0, reply_callback)

\* lines 173-188
send(reply_callback) ==
    send_message("send", send_args, 0, reply_callback)

\* lines 190-195: a reply to a message whose my_ref was their_ref
reply(their_ref, reply_callback) ==
    send_message("reply", reply_args, their_ref, reply_callback)

-----------------------------------------------------------------------------
(* The decorators and the creation of objects *)

\* lines 344-359: @toolbox_handler / @wimp_handler / @message_handler applied
decorate(d) ==
    /\ pc = "idle"
    /\ d \notin applied
    /\ applied' = applied \cup {d}
    /\ _toolbox_handlers' =
          IF d.kind = "toolbox"
          THEN _set_handler(d.code, d.component, d.handler, _toolbox_handlers).handlers
          ELSE _toolbox_handlers
    /\ _wimp_handlers' =
          IF d.kind = "wimp"
          THEN _set_handler(d.code, d.component, d.handler, _wimp_handlers).handlers
          ELSE _wimp_handlers
    /\ _message_handlers' =
          IF d.kind = "message"
          THEN _set_handler(d.code, d.component, d.handler, _message_handlers).handlers
          ELSE _message_handlers
    /\ LET raised == _set_handler(d.code, d.component, d.handler, EmptyDict).raised
       IN  IF raised = None
           THEN UNCHANGED <<pc, cur, outcome>>
           ELSE finish(Call("register"), raised)
    /\ UNCHANGED <<_reply_callbacks, objects, shown, log, fired, next_ref, defined>>

\* a decorator in the body of a class statement, or on a function of the module
register(d) ==
    /\ LET cls == qualname_cls(d.handler)
       IN  cls # None => /\ cls \notin defined
                         /\ \A k \in Classes : subclass(cls, k) => k \in defined
    /\ decorate(d)

\* a decorator called once the class exists, on one of its methods or on a
\* method of another class statement of the same qualified name
register_late(d) ==
    /\ qualname_cls(d.handler) \in defined
    /\ decorate(d)

\* the class statement of cls completes: its bases exist, and so does cls from
\* here on
class_statement(cls) ==
    /\ pc = "idle"
    /\ cls \notin defined
    /\ \A k \in Classes : subclass(cls, k) => k \in defined
    /\ defined' = defined \cup {cls}
    /\ UNCHANGED <<registries, _reply_callbacks, objects, shown, pc, cur, log, outcome, fired,
                   next_ref, applied>>

\* a faulty variant of construct: __init__ runs again on an object that exists
construct_again(id) ==
    /\ pc = "idle"
    /\ ClassOf(id) \in defined
    /\ objects' = [x \in DOMAIN objects \cup {id} |->
                      IF x = id
                      THEN EventHandler_init(ClassOf(id), _toolbox_handlers,
                                             _wimp_handlers, _message_handlers)
                      ELSE objects[x]]
    /\ UNCHANGED <<registries, _reply_callbacks, shown, pc, cur, log, outcome, fired,
                   next_ref, applied, defined>>

\* an object of the application is created: EventHandler.__init__
construct(id) ==
    /\ pc = "idle"
    /\ id \notin DOMAIN objects
    /\ ClassOf(id) \in defined
    /\ objects' = (id :> EventHandler_init(ClassOf(id), _toolbox_handlers,
                                           _wimp_handlers, _message_handlers))
                  @@ objects
    /\ UNCHANGED <<registries, _reply_callbacks, shown, pc, cur, log, outcome, fired,
                   next_ref, applied, defined>>

\* the caller has the result of the call and goes back to Wimp_Poll
poll ==
    /\ pc = "done"
    /\ pc' = "idle"
    /\ cur' = NoCall
    /\ log' = <<>>
    /\ outcome' = "none"
    /\ UNCHANGED <<registries, _reply_callbacks, objects, shown, fired, next_ref, applied,
                   defined>>

-----------------------------------------------------------------------------
(* Specifications *)

\* the id blocks of the events delivered: from o1 or o2, whose parent is o2
\* or nothing
IdBlocks ==
    [self : ObjIds, parent : {"o2", NullId}, ancestor : {NullId},
     component : Components]

\* the application object handed to a dispatch, if it has been created
Applications == {None} \cup (DOMAIN objects \cap {AppKey})

PollLens == {sizeof("Ev5") - 1, sizeof("Ev5")}

-----------------------------------------------------------------------------
(* AboutToBeShownEvent and its properties: events.py 98-150 *)

ShowTypes == 0..4
ShowType_FullSpec == 1
ShowType_TopLeft == 2

\* the names of the fields the ctypes Structure is given (lines 105-112)
_fields_ ==
    {"show_type", "_visible_area", "_scroll", "_behind", "_window_flags",
     "+parent_window_handle", "_alignment_flags"}

\* an event with these values in its fields; a BBox is <<min.x, min.y, max.x,
\* max.y>>, a Point <<x, y>>, an integer <<n>>
AboutToBeShown(show_type, area, scr, beh, flags, parent, alignment) ==
    [f \in _fields_ |->
        CASE f = "show_type" -> <<show_type>>
          [] f = "_visible_area" -> area
          [] f = "_scroll" -> scr
          [] f = "_behind" -> beh
          [] f = "_window_flags" -> flags
          [] f = "+parent_window_handle" -> parent
          [] OTHER -> alignment]

ShownEvents ==
    {AboutToBeShown(t, a, s, b, w, p, g) :
        t \in ShowTypes, a \in {<<0, 0, 1, 1>>, <<2, 3, 4, 5>>},
        s \in {<<0, 0>>, <<6, 7>>}, b \in {<<-1>>, <<8>>}, w \in {<<0>>, <<9>>},
        p \in {<<0>>, <<10>>}, g \in {<<0>>, <<11>>}}

\* what reading a property gives: a value, None, or an exception
Value(v) == [kind |-> "value", value |-> v]
NoneResult == [kind |-> "None", value |-> <<>>]
AttributeError == [kind |-> "AttributeError", value |-> <<>>]

\* self.<name>: an attribute exists for each name in _fields_
getattr(ev, name) == IF name \in DOMAIN ev THEN Value(ev[name]) ELSE AttributeError

\* BBox.min
min(bbox) == SubSeq(bbox, 1, 2)

\* lines 114-115
get_if(ev, value, show_type) ==
    IF ev["show_type"] = <<show_type>> THEN Value(value) ELSE NoneResult

\* self.get_if(self.<name>, show_type): the argument is evaluated first
get_if_attr(ev, name, show_type) ==
    IF getattr(ev, name) = AttributeError THEN AttributeError
    ELSE get_if(ev, getattr(ev, name).value, show_type)

\* no event has been decoded
NoShown == [event |-> EmptyDict, property |-> None, result |-> NoneResult]

\* a handler reads a property of the event
read(property, result) ==
    /\ pc = "idle"
    /\ shown' = [shown EXCEPT !.property = property, !.result = result]
    /\ UNCHANGED <<registries, _reply_callbacks, objects, pc, cur, log, outcome, fired,
                   next_ref, applied, defined>>

\* lines 117-120
top_left ==
    read("top_left",
         IF getattr(shown.event, "_visible_area") = AttributeError THEN AttributeError
         ELSE get_if(shown.event, min(getattr(shown.event, "_visible_area").value),
                     ShowType_TopLeft))

\* lines 122-125
visible_area ==
    read("visible_area", get_if_attr(shown.event, "_visible_area", ShowType_FullSpec))

\* lines 127-130
scroll == read("scroll", get_if_attr(shown.event, "_scroll", ShowType_FullSpec))

\* lines 132-135
behind == read("behind", get_if_attr(shown.event, "_behind", ShowType_FullSpec))

\* lines 137-140
window_flags ==
    read("window_flags", get_if_attr(shown.event, "_window_flags", ShowType_FullSpec))

\* lines 142-145
parent_window_handle ==
    read("parent_window_handle",
         get_if_attr(shown.event, "_parent_window_handle", ShowType_FullSpec))

\* lines 147-150
alignment_flags ==
    read("alignment_flags",
         get_if_attr(shown.event, "_alignment_flags", ShowType_FullSpec))

\* the module just imported: lines 305-309
Init ==
    /\ _toolbox_handlers = EmptyDict
    /\ _wimp_handlers = EmptyDict
    /\ _message_handlers = EmptyDict
    /\ _reply_callbacks = EmptyDict
    /\ objects = EmptyDict
    /\ pc = "idle"
    /\ cur = NoCall
    /\ log = <<>>
    /\ outcome = "none"
    /\ fired = [r \in 1..MaxRef |-> NotFired]
    /\ next_ref = 1
    /\ applied = {}
    /\ shown = NoShown
    /\ defined = {}

\* registration, construction and dispatch to handlers; no message is sent,
\* so every incoming message is one of another task
Next ==
    \/ \E d \in Decorators : register(d)
    \/ \E cls \in Classes : class_statement(cls)
    \/ \E id \in ObjIds \cup {AppKey} : construct(id)
    \/ \E event \in EventCodes, app \in Applications, idb \in IdBlocks,
          len \in PollLens : toolbox_dispatch(event, app, idb, len)
    \/ \E event \in EventCodes, app \in Applications, idb \in IdBlocks,
          len \in PollLens : wimp_dispatch(event, app, idb, len)
    \/ \E code \in EventCodes, app \in Applications, idb \in IdBlocks,
          len \in PollLens :
          message_dispatch(Message("UserMessage", 0, 0, code), app, idb, len)
    \/ \E r \in Returns \cup {"raise"} : call_handler(r)
    \/ poll

Spec == Init /\ [][Next]_vars

\* The reply callbacks, in an application that is set up: class A holds
\* @message_handler(5) above on_a, and its instance o2 exists
InitReply ==
    /\ _toolbox_handlers = EmptyDict
    /\ _wimp_handlers = EmptyDict
    /\ _message_handlers = _set_handler(IntCode(5), None, on_a, EmptyDict).handlers
    /\ _reply_callbacks = EmptyDict
    /\ objects = ("o2" :> EventHandler_init("A", _toolbox_handlers, _wimp_handlers,
                                            _message_handlers))
    /\ pc = "idle"
    /\ cur = NoCall
    /\ log = <<>>
    /\ outcome = "none"
    /\ fired = [r \in 1..MaxRef |-> NotFired]
    /\ next_ref = 1
    /\ applied = {Decorator("message", IntCode(5), None, on_a)}
    /\ shown = NoShown
    /\ defined = {"A"}

\* the messages the Wimp delivers: any reason, and as my_ref and your_ref
\* nothing or a reference this task's messages were given
Messages ==
    {Message(reason, my_ref, your_ref, 5) :
        reason \in Reasons, my_ref \in 0..(next_ref - 1), your_ref \in 0..(next_ref - 1)}

\* the id block of a message: sent to o2, which has no parent
MessageIdBlock ==
    [self |-> "o2", parent |-> NullId, ancestor |-> NullId, component |-> "c2"]

NextReply ==
    \/ \E cb \in Callbacks \cup {NoCallback} : broadcast(cb)
    \/ \E cb \in Callbacks \cup {NoCallback} : send(cb)
    \/ \E cb \in Callbacks \cup {NoCallback} : reply(1, cb)
    \/ \E m \in Messages : message_dispatch(m, None, MessageIdBlock, sizeof("Ev5"))
    \/ null_poll
    \/ \E r \in Returns : callback_returns(r)
    \/ callback_raises
    \/ \E cb \in Callbacks : callback_sends(cb)
    \/ \E r \in Returns \cup {"raise"} : call_handler(r)
    \/ poll

SpecReply == InitReply /\ [][NextReply]_vars

\* messages are sent and delivered, and null events are delivered while
\* null_polls() is true; callbacks return, and send nothing
NextIdle ==
    \/ \E cb \in Callbacks \cup {NoCallback} : broadcast(cb)
    \/ \E m \in Messages : message_dispatch(m, None, MessageIdBlock, sizeof("Ev5"))
    \/ idle_null_poll
    \/ \E r \in Returns : callback_returns(r)
    \/ \E r \in Returns : call_handler(r)
    \/ poll

\* callbacks and handlers return and the caller polls again; a null event is
\* delivered at some time if the task asks for them again and again
SpecIdle ==
    /\ InitReply
    /\ [][NextIdle]_vars
    /\ WF_vars(\E r \in Returns : callback_returns(r))
    /\ WF_vars(\E r \in Returns : call_handler(r))
    /\ WF_vars(poll)
    /\ SF_vars(idle_null_poll)

\* decorators of methods of A given something else than one int or one Event
\* class as event, or a list of component ids as component
RegDecorators ==
    {Decorator("toolbox", OtherClass("dict"), None, on_a),
     Decorator("toolbox", FloatCode, None, on_a),
     Decorator("toolbox", StrCode(2), None, on_a),
     Decorator("toolbox", StrCode(0), None, on_a),
     Decorator("toolbox", ListCode(<<IntCode(6), OtherClass("dict")>>), None, on_a),
     Decorator("toolbox", ListCode(<<IntCode(5), IntCode(6)>>), "c2", on_a),
     Decorator("toolbox", IntCode(5), ComponentList, on_a)}

\* the id blocks of events on o2
RegIdBlocks ==
    [self : {"o2"}, parent : {NullId}, ancestor : {NullId}, component : Components]

\* registration with any of RegDecorators, then construction of o2 and
\* toolbox events on it; an exception of a decorator is caught by the importer
NextReg ==
    \/ \E d \in RegDecorators : register(d)
    \/ \E cls \in Classes : class_statement(cls)
    \/ construct("o2")
    \/ \E event \in EventCodes, idb \in RegIdBlocks, len \in PollLens :
          toolbox_dispatch(event, None, idb, len)
    \/ \E r \in Returns \cup {"raise"} : call_handler(r)
    \/ poll

SpecReg == Init /\ [][NextReg]_vars

\* the decorators of toolbox events
ToolboxDecorators == {d \in Decorators : d.kind = "toolbox"}

\* registration before and after the objects are created, and toolbox events
NextLate ==
    \/ \E d \in ToolboxDecorators : register(d)
    \/ \E d \in ToolboxDecorators : register_late(d)
    \/ \E cls \in Classes : class_statement(cls)
    \/ \E id \in ObjIds : construct(id)
    \/ \E event \in EventCodes, idb \in IdBlocks, len \in PollLens :
          toolbox_dispatch(event, None, idb, len)
    \/ \E r \in Returns \cup {"raise"} : call_handler(r)
    \/ poll

SpecLate == Init /\ [][NextLate]_vars

\* a handler has been given an AboutToBeShownEvent decoded from a poll block
InitShown ==
    /\ _toolbox_handlers = EmptyDict
    /\ _wimp_handlers = EmptyDict
    /\ _message_handlers = EmptyDict
    /\ _reply_callbacks = EmptyDict
    /\ objects = EmptyDict
    /\ pc = "idle"
    /\ cur = NoCall
    /\ log = <<>>
    /\ outcome = "none"
    /\ fired = [r \in 1..MaxRef |-> NotFired]
    /\ next_ref = 1
    /\ applied = {}
    /\ shown \in {[event |-> ev, property |-> None, result |-> NoneResult] :
                      ev \in ShownEvents}
    /\ defined = {}

\* the properties are read in any order
NextShown ==
    \/ top_left
    \/ visible_area
    \/ scroll
    \/ behind
    \/ window_flags
    \/ parent_window_handle
    \/ alignment_flags

SpecShown == InitShown /\ [][NextShown]_vars

-----------------------------------------------------------------------------
(* Properties.  `log` holds the invocations of the call in progress (or just *)
(* finished), `cur` its arguments, `cur.start` the references pending when   *)
(* it was entered.                                                           *)

\* the invocations of the log that are calls of a reply callback
callbacks_in_log == {i \in DOMAIN log : log[i].t = "callback"}

\* the table the call in progress looks in, for the object id
table_of(id) == handlers_of(objects[id], cur.op)

\* the table of id has, for the event of the call in progress and under the
\* component key filter, a handler declared in class cls
has_entry(id, filter, cls) ==
    /\ cur.event \in DOMAIN table_of(id)
    /\ filter \in DOMAIN table_of(id)[cur.event]
    /\ \E k \in DOMAIN table_of(id)[cur.event][filter] :
          qualname_cls(table_of(id)[cur.event][filter][k].handler) = cls

\* log[i] is the call of a handler declared in class cls, found under the
\* component key filter, on an instance of B
on_B_instance(i, cls, filter) ==
    /\ log[i].t = "handler"
    /\ objects[log[i].obj].cls = "B"
    /\ qualname_cls(log[i].who) = cls
    /\ log[i].filter = filter

\* C1: once the callback stored under a reference R has been invoked for an
\* incoming message whose your_ref is R, no later incoming message with
\* your_ref R invokes it again: no callback is invoked for a reply twice; and
\* the callback a reply invokes is the one stored under the message's your_ref.
C1_NoDuplicateFiring ==
    /\ \A r \in 1..MaxRef : fired[r].reply <= 1
    /\ pc = "cb_your" => /\ cur.ref = cur.msg.your_ref
                         /\ cur.ref \in cur.start

\* C2: every stored callback is invoked at most once, and an entry whose
\* callback has been invoked is no longer in the table once that callback has
\* returned or raised (while it runs, the entry is the one being processed).
C2_FiredOnceAndRemoved ==
    \A r \in 1..MaxRef :
        /\ fired[r].total <= 1
        /\ (r \in DOMAIN _reply_callbacks /\ fired[r].total > 0)
              => (InCallback /\ cur.ref = r)

\* C3: when null_poll has ended, it has invoked one callback for each of the
\* N entries present at its start and no other, each with None; none of those
\* entries remains; every entry added during the pass is still in the table.
C3_DrainFiresAllPending ==
    (pc = "done" /\ cur.op = "null_poll") =>
        /\ Cardinality(callbacks_in_log) = Cardinality(cur.start)
        /\ {log[i].ref : i \in callbacks_in_log} = cur.start
        /\ \A i \in callbacks_in_log : log[i].arg = None
        /\ DOMAIN _reply_callbacks \cap cur.start = {}
        /\ \A r \in cur.fresh..(next_ref - 1) : r \in DOMAIN _reply_callbacks

\* C4, as the specification states it: on an instance of B, A's handler for
\* the component of the event is invoked only after B's wildcard handler for
\* the same event has been.
C4_WildcardOfSubclassFirst ==
    \A i \in DOMAIN log :
        (/\ on_B_instance(i, "A", cur.id_block.component)
         /\ has_entry(log[i].obj, None, "B"))
        => \E j \in 1..(i - 1) :
              /\ on_B_instance(j, "B", None)
              /\ log[j].obj = log[i].obj

\* C4, as the code has it: on an instance of B, B's wildcard handler is
\* invoked only after A's handler for the component of the event has been
\* invoked and has returned False: the component key outranks the class.
C4_ComponentBeforeWildcard ==
    \A i \in DOMAIN log :
        (/\ on_B_instance(i, "B", None)
         /\ has_entry(log[i].obj, cur.id_block.component, "A"))
        => \E j \in 1..(i - 1) :
              /\ on_B_instance(j, "A", cur.id_block.component)
              /\ log[j].obj = log[i].obj
              /\ log[j].res = "False"

\* C4: B's wildcard handler has been invoked on an instance of B that also
\* has A's handler for the component of the event
C4_Witness ==
    \E i \in DOMAIN log :
        /\ on_B_instance(i, "B", None)
        /\ has_entry(log[i].obj, cur.id_block.component, "A")

\* C5, as the specification states it: on an instance of B that has a
\* handler of B for the event, a handler of A for that event is invoked only
\* after a handler of B has been invoked on that object and returned False.
C5_SubclassHandlerFirst ==
    \A i \in DOMAIN log :
        (/\ log[i].t = "handler"
         /\ objects[log[i].obj].cls = "B"
         /\ qualname_cls(log[i].who) = "A"
         /\ \E f \in Components \cup {None} : has_entry(log[i].obj, f, "B"))
        => \E j \in 1..(i - 1) :
              /\ log[j].t = "handler"
              /\ log[j].obj = log[i].obj
              /\ qualname_cls(log[j].who) = "B"
              /\ log[j].res = "False"

\* what the registry holds for the classes A and B is in the tables of every
\* instance of B, and under each component key B's entry is ahead of A's
both_in_table(registry, id, table) ==
    /\ \A e \in DOMAIN registry :
          \A cls \in Classes \cap DOMAIN registry[e] :
             \A f \in DOMAIN registry[e][cls] :
                /\ e \in DOMAIN table
                /\ f \in DOMAIN table[e]
                /\ \E k \in DOMAIN table[e][f] : table[e][f][k] = registry[e][cls][f]
    /\ \A e \in DOMAIN table :
          \A f \in DOMAIN table[e] :
             \A k, l \in DOMAIN table[e][f] :
                (/\ qualname_cls(table[e][f][k].handler) = "B"
                 /\ qualname_cls(table[e][f][l].handler) = "A") => k < l

\* C5, as the code has it: an instance of B has the handlers of A and of B in
\* its tables, and where both classes have a handler under the same component
\* key, B's is ahead of A's, and A's is invoked only right after B's has been
\* invoked and has returned False.
C5_SubclassFirstUnderOneKey ==
    /\ \A id \in DOMAIN objects :
          objects[id].cls = "B" =>
             /\ both_in_table(_toolbox_handlers, id, objects[id].toolbox_handlers)
             /\ both_in_table(_wimp_handlers, id, objects[id].wimp_handlers)
             /\ both_in_table(_message_handlers, id, objects[id].message_handlers)
    /\ \A i \in DOMAIN log :
          (/\ on_B_instance(i, "A", log[i].filter)
           /\ has_entry(log[i].obj, log[i].filter, "B"))
          => /\ i > 1
             /\ on_B_instance(i - 1, "B", log[i].filter)
             /\ log[i - 1].obj = log[i].obj
             /\ log[i - 1].res = "False"

\* C5: on an instance of B, A's handler has been invoked after B's handler
\* under the same component key
C5_Witness ==
    \E i \in DOMAIN log :
        /\ on_B_instance(i, "A", log[i].filter)
        /\ has_entry(log[i].obj, log[i].filter, "B")

\* C6: in each of the three dispatch functions every handler invoked before
\* the last one returned False, and the loop goes on to another handler only
\* after a False: a handler that returns anything else, or nothing, is the
\* last one invoked for the event.
C6_NonFalseStopsDispatch ==
    /\ \A i \in 1..(Len(log) - 1) : log[i].t = "handler" => log[i].res = "False"
    /\ (pc = "handlers" /\ log # <<>> /\ log[Len(log)].t = "handler")
          => log[Len(log)].res = "False"

\* C6: a dispatch has returned after o1's handler on_b returned nothing, with
\* A's handler still to come under the same key of o1's table
C6_Witness ==
    /\ pc = "done"
    /\ outcome = "returned"
    /\ Len(log) = 1
    /\ log[1].t = "handler"
    /\ log[1].obj = "o1"
    /\ log[1].who = on_b
    /\ log[1].res = "None"
    /\ has_entry("o1", log[1].filter, "A")

\* the candidate list C7 describes: the objects of self, parent and ancestor
\* in this order, an id taken where it occurs first, ids without an object
\* left out, then the application
spaa_in_order(application, id_block) ==
    LET ids == <<id_block.self, id_block.parent, id_block.ancestor>>
        kept == SelectSeq(<<1, 2, 3>>,
                          LAMBDA i : /\ get_object(ids[i]) # None
                                     /\ \A j \in 1..(i - 1) : ids[j] # ids[i])
    IN  [k \in 1..Len(kept) |-> get_object(ids[kept[k]])]
        \o (IF application # None THEN <<application>> ELSE <<>>)

\* C7: the candidate being offered the event and the candidates still to be
\* offered it are the rest of the list self, parent, ancestor, application.
C7_CandidatesInOrder ==
    pc = "handlers" =>
        LET claimed == spaa_in_order(cur.application, cur.id_block)
        IN  \E k \in 0..Len(claimed) :
               SubSeq(claimed, k + 1, Len(claimed)) = <<cur.obj>> \o cur.cands

\* C8: in message_dispatch no callback is invoked after a handler; a callback
\* that returned something other than False (or raised) is the last thing
\* invoked; and when the your_ref of the message was pending on entry, the
\* first thing invoked is the callback stored under it.
C8_CorrelationBeforeHandlers ==
    cur.op = "message_dispatch" =>
        /\ \A i, j \in DOMAIN log :
              (i < j /\ log[i].t = "handler") => log[j].t = "handler"
        /\ \A i \in callbacks_in_log :
              log[i].res # "False" => (i = Len(log) /\ pc = "done")
        /\ (cur.msg.your_ref \in cur.start /\ pc \in {"handlers", "done"})
              => /\ log # <<>>
                 /\ log[1].t = "callback"
                 /\ log[1].ref = cur.msg.your_ref

\* C8: message_dispatch has returned after the callback of a reply returned
\* nothing; o2's handler for the message was not invoked
C8_Witness ==
    /\ pc = "done"
    /\ cur.op = "message_dispatch"
    /\ cur.msg.your_ref \in cur.start
    /\ Len(log) = 1
    /\ log[1].t = "callback"
    /\ log[1].res = "None"
    /\ has_entry("o2", None, "A")

\* C9: for a message whose your_ref was not pending: the callback stored
\* under its my_ref runs only for a bounce; a bounce whose my_ref was pending
\* invokes that callback, once, and the entry is removed, and handlers follow
\* only if it returned False; any other message invokes no callback and
\* leaves the table as it was.
C9_BounceFiresMyRef ==
    (cur.op = "message_dispatch" /\ cur.msg.your_ref \notin cur.start) =>
        /\ pc = "cb_my" => bounce(cur.msg)
        /\ (pc \in {"handlers", "done"} /\ bounce(cur.msg)
               /\ cur.msg.my_ref \in cur.start)
              => /\ callbacks_in_log = {1}
                 /\ log[1].ref = cur.msg.my_ref
                 /\ cur.msg.my_ref \notin DOMAIN _reply_callbacks
                 /\ Len(log) > 1 => log[1].res = "False"
        /\ (pc \in {"handlers", "done"} /\ ~bounce(cur.msg))
              => /\ callbacks_in_log = {}
                 /\ DOMAIN _reply_callbacks = cur.start

\* C10: send returns, and with a reply callback the table has gained one
\* entry, the callback, under the reference of the message sent; without one
\* the table is as it was.
C10_SendStoresCallback ==
    (pc = "done" /\ cur.op = "send") =>
        /\ outcome = "returned"
        /\ IF cur.reply_callback # NoCallback
           THEN /\ cur.msg.my_ref \notin cur.start
                /\ DOMAIN _reply_callbacks = cur.start \cup {cur.msg.my_ref}
                /\ _reply_callbacks[cur.msg.my_ref] = cur.reply_callback
           ELSE DOMAIN _reply_callbacks = cur.start

\* the call in progress is one of the three module-level dispatch functions
is_dispatch == cur.op \in {"toolbox_dispatch", "wimp_dispatch", "message_dispatch"}

\* C11: a dispatch that returns reports Handled (a true value) exactly when
\* one of the handlers it invoked returned something other than False, and
\* Unhandled otherwise.
C11_ReportsHandledOrUnhandled ==
    (pc = "done" /\ is_dispatch /\ outcome = "returned") =>
        (cur.result = "True"
            <=> \E i \in DOMAIN log : log[i].t = "handler" /\ log[i].res # "False")

\* the entry about to be tried has a data class, and the poll block is
\* shorter than that class
short_for_next_entry ==
    /\ pc = "handlers"
    /\ Head(cur.queue).e.tuple
    /\ Head(cur.queue).e.data_class # None
    /\ cur.poll_len < sizeof(Head(cur.queue).e.data_class)

\* C12: when the entry about to be tried has a data class and the poll block
\* is shorter than it, the next step ends the dispatch with the RuntimeError
\* of from_poll_block and invokes nothing; a dispatch that has ended invokes
\* nothing more.
C12_ShortPayloadAbortsDispatch ==
    [][/\ short_for_next_entry
          => (pc' = "done" /\ outcome' = "RuntimeError" /\ log' = log)
       /\ (pc = "done" /\ outcome = "RuntimeError") => (pc' = "idle" /\ log' = <<>>)]_vars

\* C12: a dispatch has ended with the RuntimeError of a short poll block,
\* o1's entry for component c2 not invoked and o1's wildcard entry not tried
C12_Witness ==
    /\ pc = "done"
    /\ outcome = "RuntimeError"
    /\ cur.poll_len < sizeof("Ev5")
    /\ "o1" \in DOMAIN objects
    /\ log = <<>>
    /\ has_entry("o1", None, "B")

\* a registration with d is what this step executes
registers(d) == d \notin applied /\ d \in applied'

\* code is neither an int nor an Event class, or is a list with such an element
not_int_or_Event(code) ==
    IF code.t = "list"
    THEN \E i \in DOMAIN code.items : code.items[i].t \notin {"int", "event"}
    ELSE code.t \notin {"int", "event"}

\* C13: a registration whose event identifier is neither an int nor an Event
\* class, or is a list with such an element, raises RuntimeError there and
\* then.
C13_BadIdentifierRaisesRuntimeError ==
    [][\A d \in RegDecorators :
          (registers(d) /\ not_int_or_Event(d.code))
             => (pc' = "done" /\ cur'.op = "register" /\ outcome' = "RuntimeError")]_vars

\* C14: a registration with a list of component ids and a valid event
\* identifier raises nothing, and the registry then has the handler under each
\* component of the list, for the class and the event.
C14_ComponentListRegisters ==
    [][\A d \in RegDecorators :
          (registers(d) /\ d.component = ComponentList /\ ~not_int_or_Event(d.code))
             => /\ pc' = "idle"
                /\ d.code.v \in DOMAIN _toolbox_handlers'
                /\ "A" \in DOMAIN _toolbox_handlers'[d.code.v]
                /\ Components \subseteq DOMAIN _toolbox_handlers'[d.code.v]["A"]]_vars

\* C15: null_polls() is true exactly when the table has an entry; every entry
\* of the table is at some later time invoked and removed, by null_poll with
\* None unless a message fired it before; the table stays empty from some time
\* on, and null_polls() turns true only by a send with a reply callback.
C15_PendingRepliesDrain ==
    /\ [](null_polls <=> DOMAIN _reply_callbacks # {})
    /\ \A r \in 1..MaxRef :
          (r \in DOMAIN _reply_callbacks)
             ~> (r \notin DOMAIN _reply_callbacks /\ fired[r].total > 0)
    /\ [](pc = "cb_null" => callback_arg = None)
    /\ <>[](~null_polls)
    /\ [][(~null_polls /\ null_polls')
             => (pc' = "done" /\ cur'.op = "broadcast"
                    /\ cur'.reply_callback # NoCallback)]_vars

\* C15: null_poll has returned after it invoked, with None, the callback of
\* the one entry that was pending, and the table is empty
C15_Witness ==
    /\ pc = "done"
    /\ cur.op = "null_poll"
    /\ outcome = "returned"
    /\ Cardinality(cur.start) = 1
    /\ callbacks_in_log = {1}
    /\ log[1].arg = None
    /\ ~null_polls

\* the selector of a property of AboutToBeShownEvent, and the field it is
\* documented to give
selector_of(property) ==
    IF property = "top_left" THEN ShowType_TopLeft ELSE ShowType_FullSpec

stored_field(ev, property) ==
    CASE property = "top_left" -> min(ev["_visible_area"])
      [] property = "visible_area" -> ev["_visible_area"]
      [] property = "scroll" -> ev["_scroll"]
      [] property = "behind" -> ev["_behind"]
      [] property = "window_flags" -> ev["_window_flags"]
      [] property = "parent_window_handle" -> ev["+parent_window_handle"]
      [] OTHER -> ev["_alignment_flags"]

\* C16: a conditional property of an AboutToBeShownEvent that has been read
\* gave the stored field if show_type is the selector of the property and None
\* if it is not, and did not raise.
C16_AccessorsGiveFieldOrNone ==
    shown.property # None =>
        /\ shown.result # AttributeError
        /\ shown.result =
              IF shown.event["show_type"] = <<selector_of(shown.property)>>
              THEN Value(stored_field(shown.event, shown.property))
              ELSE NoneResult

\* C17: while a reply callback invoked by message_dispatch or null_poll runs,
\* from its first moment on, its entry is no longer in the table.
C17_RemovedBeforeInvocation ==
    InCallback => cur.ref \notin DOMAIN _reply_callbacks

\* C18: one call of message_dispatch invokes at most one reply callback.
C18_OneCallbackPerMessage ==
    cur.op = "message_dispatch" =>
        Cardinality(callbacks_in_log) + (IF InCallback THEN 1 ELSE 0) <= 1

\* the handlers of the table of id that apply to the event of the call in
\* progress: those under the component of the event, then those under None
applicable(id) ==
    LET under(f) ==
            IF cur.event \in DOMAIN table_of(id) /\ f \in DOMAIN table_of(id)[cur.event]
            THEN [k \in DOMAIN table_of(id)[cur.event][f] |->
                     [who |-> table_of(id)[cur.event][f][k].handler, filter |-> f]]
            ELSE <<>>
    IN  under(cur.id_block.component) \o under(None)

\* the handlers invoked on the object id so far, in the order of invocation
tried_on(id) ==
    LET mine == SelectSeq(log, LAMBDA x : x.t = "handler" /\ x.obj = id)
    IN  [k \in DOMAIN mine |-> [who |-> mine[k].who, filter |-> mine[k].filter]]

\* C19: the handlers invoked on one candidate are the first of its applicable
\* handlers, those of the component before those of None, each list in its
\* order; and once a handler of another candidate is invoked, all of them have
\* been invoked and none is invoked any more.
C19_ComponentThenWildcardPerCandidate ==
    \A id \in DOMAIN objects :
        /\ Len(tried_on(id)) <= Len(applicable(id))
        /\ tried_on(id) = SubSeq(applicable(id), 1, Len(tried_on(id)))
        /\ \A i, j \in DOMAIN log :
              (/\ i < j
               /\ log[i].t = "handler" /\ log[i].obj = id
               /\ log[j].t = "handler" /\ log[j].obj # id)
              => /\ tried_on(id) = applicable(id)
                 /\ \A k \in DOMAIN log : k > j => log[k].obj # id

\* C19: on o1 a handler of the component and then a handler of None have been
\* invoked, and after them a handler of the next candidate, o2
C19_Witness ==
    \E i, j, k \in DOMAIN log :
        /\ i < j /\ j < k
        /\ log[i].t = "handler" /\ log[i].obj = "o1"
        /\ log[i].filter = cur.id_block.component
        /\ log[j].t = "handler" /\ log[j].obj = "o1" /\ log[j].filter = None
        /\ log[k].t = "handler" /\ log[k].obj = "o2"

\* C20: no step changes the tables of an object that exists, be it a step of
\* a dispatch or a registration; and no step of a dispatch changes a registry.
C20_InstanceTablesFrozen ==
    [][/\ \A id \in DOMAIN objects : id \in DOMAIN objects' /\ objects'[id] = objects[id]
       /\ (is_dispatch \/ is_dispatch') => registries' = registries]_vars

\* C20: a toolbox_dispatch has ended on o2, which was created when the
\* registry had no handler of its class A, and the registry now has one
C20_Witness ==
    /\ pc = "done"
    /\ cur.op = "toolbox_dispatch"
    /\ "o2" \in DOMAIN objects
    /\ DOMAIN objects["o2"].toolbox_handlers = {}
    /\ 5 \in DOMAIN _toolbox_handlers
    /\ "A" \in DOMAIN _toolbox_handlers[5]

\* every entry of the registry is a (handler, data class) tuple
registry_of_pairs(registry) ==
    \A e \in DOMAIN registry :
        \A cls \in DOMAIN registry[e] :
            \A f \in DOMAIN registry[e][cls] : registry[e][cls][f].tuple

\* every entry of the instance table is a (handler, data class) tuple
table_of_pairs(table) ==
    \A e \in DOMAIN table :
        \A f \in DOMAIN table[e] :
            \A k \in DOMAIN table[e][f] : table[e][f][k].tuple

\* C21: whatever registrations have been executed, every entry of the three
\* registries and of the tables of every object is a (handler, data class)
\* tuple, and no dispatch ends with the TypeError of an entry that cannot be
\* unpacked.
C21_EntriesArePairs ==
    /\ registry_of_pairs(_toolbox_handlers)
    /\ registry_of_pairs(_wimp_handlers)
    /\ registry_of_pairs(_message_handlers)
    /\ \A id \in DOMAIN objects :
          /\ table_of_pairs(objects[id].toolbox_handlers)
          /\ table_of_pairs(objects[id].wimp_handlers)
          /\ table_of_pairs(objects[id].message_handlers)
    /\ ~(pc = "done" /\ is_dispatch /\ outcome = "TypeError")

=============================================================================
